---- MODULE Spec2Model ----
(***************************************************************************)
(* stalker: a ptrace-based system call tracer (src/src/main.rs,            *)
(* src/src/syscalls.rs).  The tracer is `main`; the kernel and the traced  *)
(* process are its environment.  Every kernel request of main is one       *)
(* action, because the tracee can change state between two requests.       *)
(***************************************************************************)
EXTENDS Integers, Sequences, FiniteSets, TLC

VARIABLES
    cmd,          \* main.rs:17  command line without argv[0], a sequence of tokens
    pc,           \* position of the tracer (parent) in main
    tracee_pid,   \* main.rs:13
    status,       \* main.rs:109
    is_sys_exit,  \* main.rs:126
    regs,         \* main.rs:154 the snapshot of the last register read
    out,          \* standard output of the tracer, one record per line
    errout,       \* standard error of the tracer and of its forked copy
    exit_code,    \* exit code of the tracer process, NoExit while it runs
    reqs,         \* kernel requests issued by the tracer, in order, with their result
    child_pc,     \* position of the forked copy of main (pid == 0 branch)
    child_reqs,   \* kernel requests issued by the forked copy, in order
    proc_pid,     \* kernel: identifier of the process that can become the tracee
    tstate,       \* kernel: its run state
    forked,       \* kernel: it is a child of the tracer
    traced,       \* kernel: the tracer is its ptrace tracer
    pending,      \* kernel: it has a state change no wait has reported yet
    wstatus,      \* kernel: the wait status of that state change
    stop_kind,    \* kernel: what the current stop is
    tregs,        \* kernel: the register file of the process
    cur,          \* tracee: the system call it is inside, when tphase = "insys"
    tphase,       \* tracee: "user" between system calls, "insys" inside one
    executed,     \* tracee: the system calls it has entered since tracing began
    nsignals      \* tracee: signal-delivery stops so far

tracer_vars == <<cmd, pc, tracee_pid, status, is_sys_exit, regs, out, errout, exit_code, reqs>>
child_vars  == <<child_pc, child_reqs>>
kernel_vars == <<proc_pid, tstate, forked, traced, pending, wstatus, stop_kind, tregs>>
tracee_vars == <<cur, tphase, executed, nsignals>>
vars == <<tracer_vars, child_vars, kernel_vars, tracee_vars>>

----------------------------------------------------------------------------
(* Bounds of the model *)

\* system calls the tracee enters after tracing began, the final exit included
MaxSyscalls == 3
\* signal-delivery stops of the tracee after tracing began
MaxSignals == 1
\* registers are 64 bits wide; the model keeps RegBits of them
RegBits == 16
\* iterations of the trace loop: enough for every stop of the tracee, and
\* three more for the iterations that find the tracee gone
MaxIter == 2 * MaxSyscalls + MaxSignals + 3

RegMod == 2 ^ RegBits
\* the unsigned register value of the negative number -k
U64Neg(k) == RegMod - k

----------------------------------------------------------------------------
(* The environment: command lines, processes, system calls of the tracee *)

P_FLAG  == <<"-", "p">>
TOK_LS  == <<"l", "s">>
TOK_BAD == <<"n", "o">>

\* the command lines tried: none, attach to a live process, attach to a
\* process identifier nobody has, attach with a malformed number, launch an
\* executable, launch a name that is no executable
Cmds ==
    { <<>>,
      <<P_FLAG, <<"7">>>>,
      <<P_FLAG, <<"9">>>>,
      <<P_FLAG, <<"x">>>>,
      <<TOK_LS>>,
      <<TOK_BAD>> }

Env == [ livePid |-> 7, childPid |-> 42, executables |-> {TOK_LS} ]

Sig == [ TRAP |-> 5, KILL |-> 9, CHLD |-> 17, STOP |-> 19 ]
Errno == [ EPERM |-> 1, ESRCH |-> 3, ECHILD |-> 10, EAGAIN |-> 11, ENOENT |-> 2, ENOSYS |-> 38 ]

\* a system call the tracee makes: identifier and first three arguments
SyscallInputs ==
    { [id |-> 1,   rdi |-> 1, rsi |-> 2560, rdx |-> 3],    \* write(1, buf, 3)
      [id |-> 0,   rdi |-> 0, rsi |-> 2560, rdx |-> 7],    \* read(0, buf, 7)
      [id |-> 400, rdi |-> 0, rsi |-> 0,    rdx |-> 0] }   \* a number no table names
\* results a system call can have
SyscallResults == { 0, 3, U64Neg(Errno.ENOSYS) }
\* the process-exit system call, exit_group(code)
ExitSyscall(code) == [id |-> 231, rdi |-> code, rsi |-> 0, rdx |-> 0]
ExitCodes == { 0, 3 }
IsExitSyscall(sc) == sc.id = 231

NoSyscall == [id |-> U64Neg(1), rdi |-> 0, rsi |-> 0, rdx |-> 0]

----------------------------------------------------------------------------
(* syscalls.rs *)

\* UserRegsStruct, the fields main reads
ZeroRegs == [orig_rax |-> 0, rdi |-> 0, rsi |-> 0, rdx |-> 0, rax |-> 0]

\* fetch_syscall_table: identifier -> name (the entries the model's system
\* calls can hit)
syscall_table == (0 :> "read") @@ (1 :> "write") @@ (3 :> "close") @@ (231 :> "exit_group")

----------------------------------------------------------------------------
(* Formatting and parsing *)

HexDigits == <<"0","1","2","3","4","5","6","7","8","9","a","b","c","d","e","f">>

RECURSIVE Hex(_)
\* {:x} of an unsigned value
Hex(n) == IF n < 16 THEN <<HexDigits[n + 1]>>
          ELSE Hex(n \div 16) \o <<HexDigits[(n % 16) + 1]>>

RECURSIVE Dec(_)
\* {} of an unsigned value
Dec(n) == IF n < 10 THEN <<HexDigits[n + 1]>>
          ELSE Dec(n \div 10) \o <<HexDigits[(n % 10) + 1]>>

DigitVal == [c \in {"0","1","2","3","4","5","6","7","8","9"} |->
               CHOOSE d \in 0..9 : HexDigits[d + 1] = c]
ParseErr == 0 - 1

RECURSIVE ParseDigits(_, _)
ParseDigits(s, acc) ==
    IF s = <<>> THEN acc
    ELSE IF Head(s) \notin DOMAIN DigitVal THEN ParseErr
    ELSE ParseDigits(Tail(s), acc * 10 + DigitVal[Head(s)])

\* str::parse::<u64>: an optional '+', then one or more decimal digits
ParseU64(s) ==
    LET body == IF s # <<>> /\ Head(s) = "+" THEN Tail(s) ELSE s
    IN IF body = <<>> THEN ParseErr ELSE ParseDigits(body, 0)

\* println!("[{}] {}({:x}, {:x}, {:x}, ...) = {:x}", ...)
SyscallLine(pid, name, rdi, rsi, rdx, rax) ==
    [kind |-> "syscall", pid |-> Dec(pid), name |-> name,
     args |-> <<Hex(rdi), Hex(rsi), Hex(rdx)>>, res |-> Hex(rax)]

\* println!("child exited with status: {}", ...)
ExitLine(code) ==
    [kind |-> "exit", pid |-> <<>>, name |-> "", args |-> <<>>, res |-> Dec(code)]

\* (status & 0x7f) == 0
LowBitsZero(st) == (st % 128) = 0
\* ExitStatusOf without the shift: status & 0xff
ExitStatusOf_noshift(st) == st % 256

\* (status >> 8) & 0xff
ExitStatusOf(st) == (st \div 256) % 256

----------------------------------------------------------------------------
(* The kernel *)

StopStatus(sig)   == sig * 256 + 127
ExitedStatus(code) == code * 256
KilledStatus(sig) == sig

NoExit == 0 - 1

\* not a ptrace call
NoRequest == 0 - 1

\* PtraceRequest with the register read turned into PTRACE_SETREGS
PtraceRequest_setregs(op) ==
    CASE op = "traceme" -> 0
      [] op = "getregs" -> 13
      [] op = "attach"  -> 16
      [] op = "resume"  -> 24
      [] OTHER          -> NoRequest

\* the request number main passes to sys_ptrace as its first argument:
\* main.rs:47 (0), main.rs:158 (12), main.rs:35 (16), main.rs:133 (24)
PtraceRequest(op) ==
    CASE op = "traceme" -> 0
      [] op = "getregs" -> 12
      [] op = "attach"  -> 16
      [] op = "resume"  -> 24
      [] OTHER          -> NoRequest

\* main.rs:133  the fourth argument of the resume request: the signal to inject
ResumeData == 0

\* one raw system call of syscalls.rs as issued: which call, the pid it
\* names, whether the kernel carried it out, and for sys_ptrace the request
\* number and, for a resume, the data argument
Req(op, pid, ok) ==
    [op |-> op, pid |-> pid, ok |-> ok,
     request |-> PtraceRequest(op),
     data |-> IF op = "resume" THEN ResumeData ELSE 0]

\* the process a request with this identifier reaches
Alive(pid) == pid = proc_pid /\ tstate \in {"running", "stopped"}
\* wait4 has something to wait for: a child or a tracee that was not reaped
Waitable(pid) == pid = proc_pid /\ tstate \in {"running", "stopped", "zombie"} /\ (forked \/ traced)
\* ptrace requests other than attach need a tracee in a ptrace stop
InPtraceStop(pid) == pid = proc_pid /\ tstate = "stopped" /\ traced

----------------------------------------------------------------------------
(* Initial state: main is entered with some command line *)

AttachForm(c) == Len(c) = 2 /\ c[1] = P_FLAG

Init ==
    /\ cmd \in Cmds
    /\ pc = "start"
    /\ tracee_pid = 0
    /\ status = 0
    /\ is_sys_exit = FALSE
    /\ regs = ZeroRegs
    /\ out = <<>>
    /\ errout = <<>>
    /\ exit_code = NoExit
    /\ reqs = <<>>
    /\ child_pc = "none"
    /\ child_reqs = <<>>
    \* in attach mode some other process lives under Env.livePid
    /\ proc_pid = IF AttachForm(cmd) THEN Env.livePid ELSE 0
    /\ tstate = IF AttachForm(cmd) THEN "running" ELSE "absent"
    /\ forked = FALSE
    /\ traced = FALSE
    /\ pending = FALSE
    /\ wstatus = 0
    /\ stop_kind = "none"
    /\ tregs = ZeroRegs
    /\ cur = NoSyscall
    /\ tphase = "user"
    /\ executed = <<>>
    /\ nsignals = 0

----------------------------------------------------------------------------
(* Kernel operations, as the tracer's requests see them *)

\* `tracee_pid as i64`
AsI64(u) == IF u >= RegMod \div 2 THEN u - RegMod ELSE u

\* the tracee enters a ptrace stop that a wait will report
EnterStop(kind, sig) ==
    /\ tstate' = "stopped"
    /\ pending' = TRUE
    /\ wstatus' = StopStatus(sig)
    /\ stop_kind' = kind

\* the process terminates and leaves a status for a wait to collect
Terminate(st) ==
    /\ tstate' = "zombie"
    /\ pending' = FALSE
    /\ wstatus' = st
    /\ stop_kind' = "none"

\* sys_wait4(pid, &status, 0, 0) returns: at once with ECHILD, or when the
\* process has a state change to report; it blocks otherwise
Wait4Returns(pid) ==
    \/ ~Waitable(pid)
    \/ tstate = "zombie"
    \/ tstate = "stopped" /\ pending

\* what sys_wait4 does when it returns: a failed wait writes no status
Wait4(pid) ==
    IF Waitable(pid)
    THEN /\ status' = wstatus
         /\ pending' = FALSE
         /\ tstate' = IF tstate = "zombie" THEN "reaped" ELSE tstate
    ELSE /\ status' = status
         /\ UNCHANGED <<pending, tstate>>

\* an uncaught panic of main: the process ends with code 101
Panic ==
    /\ pc' = "done"
    /\ exit_code' = 101
    /\ errout' = Append(errout, "panic")

----------------------------------------------------------------------------
(* main, the tracer *)

\* main.rs:17-24  read the command line, choose the mode, parse the pid
SelectMode ==
    /\ pc = "start"
    /\ IF AttachForm(cmd)
       THEN LET n == ParseU64(cmd[2]) IN
            IF n = ParseErr
            THEN Panic /\ UNCHANGED tracee_pid
            ELSE /\ tracee_pid' = n
                 /\ pc' = "attach"
                 /\ UNCHANGED <<exit_code, errout>>
       ELSE /\ pc' = "fork"
            /\ UNCHANGED <<tracee_pid, exit_code, errout>>
    /\ UNCHANGED <<cmd, status, is_sys_exit, regs, out, reqs>>
    /\ UNCHANGED <<child_vars, kernel_vars, tracee_vars>>

\* main.rs:35  _ = sys_ptrace(16, tracee_pid, 0, 0): the result is dropped
Attach ==
    /\ pc = "attach"
    /\ \E permitted \in BOOLEAN :
        LET pid == AsI64(tracee_pid)
            ok  == Alive(pid) /\ ~traced /\ permitted
        IN /\ reqs' = Append(reqs, Req("attach", pid, ok))
           /\ IF ok
              THEN /\ traced' = TRUE
                   /\ EnterStop("init", Sig.STOP)
                   /\ tregs' = [ZeroRegs EXCEPT !.orig_rax = NoSyscall.id]
              ELSE UNCHANGED <<traced, tstate, pending, wstatus, stop_kind, tregs>>
    /\ pc' = "init_wait"
    /\ UNCHANGED <<cmd, tracee_pid, status, is_sys_exit, regs, out, errout, exit_code>>
    /\ UNCHANGED <<child_vars, proc_pid, forked, tracee_vars>>

\* Fork with the `pid < 0` branch lost: a failed fork is taken for the parent's return
Fork_unchecked ==
    /\ pc = "fork"
    /\ \E pid \in {0 - Errno.EAGAIN, Env.childPid} :
        /\ reqs' = Append(reqs, Req("fork", 0, pid > 0))
        /\ tracee_pid' = pid
        /\ pc' = "init_wait"
        /\ IF pid < 0
           THEN UNCHANGED <<child_pc, proc_pid, tstate, forked>>
           ELSE /\ child_pc' = "traceme"
                /\ proc_pid' = pid
                /\ tstate' = "running"
                /\ forked' = TRUE
        /\ UNCHANGED <<errout, exit_code>>
    /\ UNCHANGED <<cmd, status, is_sys_exit, regs, out, child_reqs>>
    /\ UNCHANGED <<traced, pending, wstatus, stop_kind, tregs, tracee_vars>>

\* main.rs:41, 88-96  pid = sys_fork() as the parent sees it
Fork ==
    /\ pc = "fork"
    /\ \E pid \in {0 - Errno.EAGAIN, Env.childPid} :
        /\ reqs' = Append(reqs, Req("fork", 0, pid > 0))
        /\ IF pid < 0
           THEN /\ errout' = Append(errout, "failed to fork a new subprocess")
                /\ exit_code' = 1
                /\ pc' = "done"
                /\ UNCHANGED <<tracee_pid, child_pc, proc_pid, tstate, forked>>
           ELSE /\ tracee_pid' = pid
                /\ pc' = "init_wait"
                /\ child_pc' = "traceme"
                /\ proc_pid' = pid
                /\ tstate' = "running"
                /\ forked' = TRUE
                /\ UNCHANGED <<errout, exit_code>>
    /\ UNCHANGED <<cmd, status, is_sys_exit, regs, out, child_reqs>>
    /\ UNCHANGED <<traced, pending, wstatus, stop_kind, tregs, tracee_vars>>

\* main.rs:117, 126  the wait before the loop, then the flag starts false
InitWait ==
    /\ pc = "init_wait"
    /\ Wait4Returns(AsI64(tracee_pid))
    /\ Wait4(AsI64(tracee_pid))
    /\ reqs' = Append(reqs, Req("wait", AsI64(tracee_pid), Waitable(AsI64(tracee_pid))))
    /\ is_sys_exit' = FALSE
    /\ pc' = "loop"
    /\ UNCHANGED <<cmd, tracee_pid, regs, out, errout, exit_code>>
    /\ UNCHANGED <<child_vars, proc_pid, forked, traced, wstatus, stop_kind, tregs, tracee_vars>>

Resumes == Cardinality({i \in DOMAIN reqs : reqs[i].op = "resume"})

\* main.rs:133  _ = sys_ptrace(24, tracee_pid, 0, 0): no signal is injected
Resume ==
    /\ pc = "loop"
    /\ Resumes < MaxIter
    /\ LET pid == AsI64(tracee_pid)
           ok  == InPtraceStop(pid)
       IN /\ reqs' = Append(reqs, Req("resume", pid, ok))
          /\ IF ok
             THEN tstate' = "running" /\ stop_kind' = "none"
             ELSE UNCHANGED <<tstate, stop_kind>>
    /\ pc' = "wait"
    /\ UNCHANGED <<cmd, tracee_pid, status, is_sys_exit, regs, out, errout, exit_code>>
    /\ UNCHANGED <<child_vars, proc_pid, forked, traced, pending, wstatus, tregs, tracee_vars>>

\* main.rs:137  the wait of one loop iteration
LoopWait ==
    /\ pc = "wait"
    /\ Wait4Returns(AsI64(tracee_pid))
    /\ Wait4(AsI64(tracee_pid))
    /\ reqs' = Append(reqs, Req("wait", AsI64(tracee_pid), Waitable(AsI64(tracee_pid))))
    /\ pc' = "decode"
    /\ UNCHANGED <<cmd, tracee_pid, is_sys_exit, regs, out, errout, exit_code>>
    /\ UNCHANGED <<child_vars, proc_pid, forked, traced, wstatus, stop_kind, tregs, tracee_vars>>

\* Decode with the toggle of main.rs:181 lost
Decode_notoggle ==
    /\ pc = "decode"
    /\ IF LowBitsZero(status)
       THEN /\ out' = Append(out, ExitLine(ExitStatusOf(status)))
            /\ pc' = "done"
            /\ exit_code' = 0
            /\ UNCHANGED is_sys_exit
       ELSE IF is_sys_exit
       THEN /\ pc' = "getregs"
            /\ UNCHANGED <<out, exit_code, is_sys_exit>>
       ELSE /\ pc' = "loop"
            /\ UNCHANGED <<out, exit_code, is_sys_exit>>
    /\ UNCHANGED <<cmd, tracee_pid, status, regs, errout, reqs>>
    /\ UNCHANGED <<child_vars, kernel_vars, tracee_vars>>

\* Decode with the `break` lost: the exit line is printed and the loop goes on
Decode_nobreak ==
    /\ pc = "decode"
    /\ IF LowBitsZero(status)
       THEN /\ out' = Append(out, ExitLine(ExitStatusOf(status)))
            /\ pc' = "loop"
            /\ UNCHANGED <<exit_code, is_sys_exit>>
       ELSE IF is_sys_exit
       THEN /\ pc' = "getregs"
            /\ UNCHANGED <<out, exit_code, is_sys_exit>>
       ELSE /\ is_sys_exit' = ~is_sys_exit
            /\ pc' = "loop"
            /\ UNCHANGED <<out, exit_code>>
    /\ UNCHANGED <<cmd, tracee_pid, status, regs, errout, reqs>>
    /\ UNCHANGED <<child_vars, kernel_vars, tracee_vars>>

\* main.rs:142-151, 181  decode the status: exit line and break, or a stop
Decode ==
    /\ pc = "decode"
    /\ IF LowBitsZero(status)
       THEN /\ out' = Append(out, ExitLine(ExitStatusOf(status)))
            /\ pc' = "done"
            /\ exit_code' = 0
            /\ UNCHANGED is_sys_exit
       ELSE IF is_sys_exit
       THEN /\ pc' = "getregs"
            /\ UNCHANGED <<out, exit_code, is_sys_exit>>
       ELSE /\ is_sys_exit' = ~is_sys_exit
            /\ pc' = "loop"
            /\ UNCHANGED <<out, exit_code>>
    /\ UNCHANGED <<cmd, tracee_pid, status, regs, errout, reqs>>
    /\ UNCHANGED <<child_vars, kernel_vars, tracee_vars>>

\* ReadRegs without std::mem::zeroed(): a failed read leaves the last snapshot
ReadRegs_stale ==
    /\ pc = "getregs"
    /\ LET pid == AsI64(tracee_pid)
           ok  == InPtraceStop(pid)
       IN /\ reqs' = Append(reqs, Req("getregs", pid, ok))
          /\ regs' = IF ok THEN tregs ELSE regs
    /\ pc' = "print"
    /\ UNCHANGED <<cmd, tracee_pid, status, is_sys_exit, out, errout, exit_code>>
    /\ UNCHANGED <<child_vars, kernel_vars, tracee_vars>>

\* ReadRegs asking for the registers of pid 0 instead of tracee_pid
ReadRegs_pid0 ==
    /\ pc = "getregs"
    /\ LET pid == 0
           ok  == InPtraceStop(pid)
       IN /\ reqs' = Append(reqs, Req("getregs", pid, ok))
          /\ regs' = IF ok THEN tregs ELSE ZeroRegs
    /\ pc' = "print"
    /\ UNCHANGED <<cmd, tracee_pid, status, is_sys_exit, out, errout, exit_code>>
    /\ UNCHANGED <<child_vars, kernel_vars, tracee_vars>>

\* main.rs:154-158  zero the snapshot, then _ = sys_ptrace(12, tracee_pid, 0, &regs)
ReadRegs ==
    /\ pc = "getregs"
    /\ LET pid == AsI64(tracee_pid)
           ok  == InPtraceStop(pid)
       IN /\ reqs' = Append(reqs, Req("getregs", pid, ok))
          /\ regs' = IF ok THEN tregs ELSE ZeroRegs
    /\ pc' = "print"
    /\ UNCHANGED <<cmd, tracee_pid, status, is_sys_exit, out, errout, exit_code>>
    /\ UNCHANGED <<child_vars, kernel_vars, tracee_vars>>

\* main.rs:168-181  look the identifier up, print the line, flip the flag;
\* indexing the table with a key it does not hold panics
Report ==
    /\ pc = "print"
    /\ IF regs.orig_rax \in DOMAIN syscall_table
       THEN /\ out' = Append(out, SyscallLine(tracee_pid, syscall_table[regs.orig_rax],
                                              regs.rdi, regs.rsi, regs.rdx, regs.rax))
            /\ is_sys_exit' = ~is_sys_exit
            /\ pc' = "loop"
            /\ UNCHANGED <<exit_code, errout>>
       ELSE /\ Panic
            /\ UNCHANGED <<out, is_sys_exit>>
    /\ UNCHANGED <<cmd, tracee_pid, status, regs, reqs>>
    /\ UNCHANGED <<child_vars, kernel_vars, tracee_vars>>

----------------------------------------------------------------------------
(* main in the forked copy (pid == 0), until its image is replaced *)

\* main.rs:47  _ = sys_ptrace(0, 0, 0, 0)
ChildTraceme ==
    /\ child_pc = "traceme"
    /\ tstate = "running"
    /\ traced' = TRUE
    /\ child_reqs' = Append(child_reqs, Req("traceme", 0, TRUE))
    /\ child_pc' = "argv"
    /\ UNCHANGED <<tracer_vars, proc_pid, tstate, forked, pending, wstatus, stop_kind, tregs, tracee_vars>>

\* main.rs:52-73  &cmd[0] and the argument vectors; indexing an empty
\* command line panics, which ends the copy with code 101
ChildArgv ==
    /\ child_pc = "argv"
    /\ tstate = "running"
    /\ IF Len(cmd) = 0
       THEN /\ errout' = Append(errout, "panic")
            /\ Terminate(ExitedStatus(101))
            /\ child_pc' = "exited"
       ELSE /\ child_pc' = "execve"
            /\ UNCHANGED <<errout, tstate, pending, wstatus, stop_kind>>
    /\ UNCHANGED <<cmd, pc, tracee_pid, status, is_sys_exit, regs, out, exit_code, reqs>>
    /\ UNCHANGED <<child_reqs, proc_pid, forked, traced, tregs, tracee_vars>>

\* main.rs:80  _ = sys_execve(filename, argv, envp): on success the traced
\* process runs the new image and stops with SIGTRAP; on failure it returns
ChildExecve ==
    /\ child_pc = "execve"
    /\ tstate = "running"
    /\ LET ok == cmd[1] \in Env.executables
       IN /\ child_reqs' = Append(child_reqs, Req("execve", 0, ok))
          /\ IF ok
             THEN /\ child_pc' = "image"
                  /\ EnterStop("init", Sig.TRAP)
                  /\ tregs' = [ZeroRegs EXCEPT !.orig_rax = 59]
             ELSE /\ child_pc' = "exec_failed"
                  /\ UNCHANGED <<tstate, pending, wstatus, stop_kind, tregs>>
    /\ UNCHANGED <<tracer_vars, proc_pid, forked, traced, tracee_vars>>

\* ChildExecFailed with std::process::exit(1) lost: the copy falls out of
\* the if/else with tracee_pid still 0 and runs the wait and the loop itself
ChildExecFailed_fallthrough ==
    /\ child_pc = "exec_failed"
    /\ tstate = "running"
    /\ errout' = Append(errout, "failed to exec the requested invocation")
    /\ child_reqs' = child_reqs \o <<Req("wait", 0, FALSE), Req("resume", 0, FALSE),
                                     Req("wait", 0, FALSE)>>
    /\ Terminate(ExitedStatus(0))
    /\ child_pc' = "exited"
    /\ UNCHANGED <<cmd, pc, tracee_pid, status, is_sys_exit, regs, out, exit_code, reqs>>
    /\ UNCHANGED <<proc_pid, forked, traced, tregs, tracee_vars>>

\* ChildExecFailed leaving with std::process::exit(0)
ChildExecFailed_exit0 ==
    /\ child_pc = "exec_failed"
    /\ tstate = "running"
    /\ errout' = Append(errout, "failed to exec the requested invocation")
    /\ Terminate(ExitedStatus(0))
    /\ child_pc' = "exited"
    /\ UNCHANGED <<cmd, pc, tracee_pid, status, is_sys_exit, regs, out, exit_code, reqs>>
    /\ UNCHANGED <<child_reqs, proc_pid, forked, traced, tregs, tracee_vars>>

\* main.rs:86-87  eprintln!, std::process::exit(1)
ChildExecFailed ==
    /\ child_pc = "exec_failed"
    /\ tstate = "running"
    /\ errout' = Append(errout, "failed to exec the requested invocation")
    /\ Terminate(ExitedStatus(1))
    /\ child_pc' = "exited"
    /\ UNCHANGED <<cmd, pc, tracee_pid, status, is_sys_exit, regs, out, exit_code, reqs>>
    /\ UNCHANGED <<child_reqs, proc_pid, forked, traced, tregs, tracee_vars>>

----------------------------------------------------------------------------
(* The traced program, once resumed with syscall stops requested *)

TraceeRuns ==
    /\ tstate = "running"
    /\ traced
    /\ forked => child_pc = "image"
    /\ pc # "done"

ResultsOf(sc) ==
    IF sc.id \in DOMAIN syscall_table THEN SyscallResults \ {U64Neg(Errno.ENOSYS)}
    ELSE {U64Neg(Errno.ENOSYS)}

\* registers at a syscall-entry stop: rax holds -ENOSYS
EntryRegs(sc) ==
    [orig_rax |-> sc.id, rdi |-> sc.rdi, rsi |-> sc.rsi, rdx |-> sc.rdx,
     rax |-> U64Neg(Errno.ENOSYS)]

\* the tracee enters an ordinary system call: syscall-entry stop
TraceeSyscallEntry ==
    /\ TraceeRuns
    /\ tphase = "user"
    /\ Len(executed) < MaxSyscalls - 1
    /\ \E sc \in SyscallInputs :
        /\ cur' = sc
        /\ tregs' = EntryRegs(sc)
        /\ executed' = Append(executed, [sc |-> sc, done |-> FALSE, res |-> 0])
    /\ tphase' = "insys"
    /\ EnterStop("entry", Sig.TRAP)
    /\ UNCHANGED <<tracer_vars, child_vars, proc_pid, forked, traced, nsignals>>

\* the tracee enters exit_group(code): syscall-entry stop
TraceeExitEntry ==
    /\ TraceeRuns
    /\ tphase = "user"
    /\ Len(executed) < MaxSyscalls
    /\ \E code \in ExitCodes :
        /\ cur' = ExitSyscall(code)
        /\ tregs' = EntryRegs(ExitSyscall(code))
        /\ executed' = Append(executed, [sc |-> ExitSyscall(code), done |-> FALSE, res |-> 0])
    /\ tphase' = "insys"
    /\ EnterStop("entry", Sig.TRAP)
    /\ UNCHANGED <<tracer_vars, child_vars, proc_pid, forked, traced, nsignals>>

\* the system call returns: syscall-exit stop, rax holds the result
TraceeSyscallExit ==
    /\ TraceeRuns
    /\ tphase = "insys"
    /\ ~IsExitSyscall(cur)
    /\ \E res \in ResultsOf(cur) :
        /\ tregs' = [tregs EXCEPT !.rax = res]
        /\ executed' = [executed EXCEPT ![Len(executed)] = [sc |-> cur, done |-> TRUE, res |-> res]]
    /\ tphase' = "user"
    /\ EnterStop("exit", Sig.TRAP)
    /\ UNCHANGED <<tracer_vars, child_vars, proc_pid, forked, traced, cur, nsignals>>

\* exit_group does not return: the process ends with its code
TraceeTerminate ==
    /\ TraceeRuns
    /\ tphase = "insys"
    /\ IsExitSyscall(cur)
    /\ Terminate(ExitedStatus(cur.rdi))
    /\ UNCHANGED <<tracer_vars, child_vars, proc_pid, forked, traced, tregs, tracee_vars>>

\* a signal is about to be delivered to the tracee: signal-delivery stop
TraceeSignalStop ==
    /\ TraceeRuns
    /\ tphase = "user"
    /\ nsignals < MaxSignals
    /\ nsignals' = nsignals + 1
    /\ tregs' = [tregs EXCEPT !.orig_rax = NoSyscall.id]
    /\ EnterStop("signal", Sig.CHLD)
    /\ UNCHANGED <<tracer_vars, child_vars, proc_pid, forked, traced, cur, tphase, executed>>

\* SIGKILL ends the traced process at any moment, stopped or not
Kill ==
    /\ tstate \in {"running", "stopped"}
    /\ traced
    /\ forked => child_pc = "image"
    /\ pc # "done"
    /\ Terminate(KilledStatus(Sig.KILL))
    /\ UNCHANGED <<tracer_vars, child_vars, proc_pid, forked, traced, tregs, tracee_vars>>

----------------------------------------------------------------------------

Next ==
    \/ SelectMode
    \/ Attach
    \/ Fork
    \/ InitWait
    \/ Resume
    \/ LoopWait
    \/ Decode
    \/ ReadRegs
    \/ Report
    \/ ChildTraceme
    \/ ChildArgv
    \/ ChildExecve
    \/ ChildExecFailed
    \/ TraceeSyscallEntry
    \/ TraceeExitEntry
    \/ TraceeSyscallExit
    \/ TraceeTerminate
    \/ TraceeSignalStop
    \/ Kill

Spec == Init /\ [][Next]_vars

TypeOK ==
    /\ pc \in {"start", "attach", "fork", "init_wait", "loop", "wait", "decode", "getregs", "print", "done"}
    /\ tstate \in {"absent", "running", "stopped", "zombie", "reaped"}
    /\ is_sys_exit \in BOOLEAN
    /\ Len(executed) <= MaxSyscalls

----------------------------------------------------------------------------
(* Properties *)

IsSyscallLine(l) == l.kind = "syscall"
IsExitLine(l) == l.kind = "exit"
SyscallLines == SelectSeq(out, IsSyscallLine)
ExitLines == SelectSeq(out, IsExitLine)

IsDone(e) == e.done
\* the system calls of the tracee that reached their exit stop
Completed == SelectSeq(executed, IsDone)

ReqsOf(op) == {i \in DOMAIN reqs : reqs[i].op = op}
ForkFailed == \E i \in ReqsOf("fork") : ~reqs[i].ok
AttachFailed == \E i \in ReqsOf("attach") : ~reqs[i].ok
ExecFailed == \E i \in DOMAIN child_reqs : child_reqs[i].op = "execve" /\ ~child_reqs[i].ok

\* the line the tracer owes a completed system call
LineOf(e) ==
    SyscallLine(tracee_pid, syscall_table[e.sc.id], e.sc.rdi, e.sc.rsi, e.sc.rdx, e.res)

\* C1: when a launched tracee that met no signal and made only system calls
\* the table names has exited and the tracer has finished, the tracer has
\* printed as many syscall lines as the tracee made system calls, the final
\* exit_group included.
C1_LinesEqualSyscalls ==
    ( /\ pc = "done"
      /\ exit_code = 0
      /\ forked
      /\ child_pc = "image"
      /\ tstate = "reaped"
      /\ LowBitsZero(wstatus)
      /\ nsignals = 0
      /\ \A i \in DOMAIN executed : executed[i].sc.id \in DOMAIN syscall_table )
    => Len(SyscallLines) = Len(executed)

\* C2: there is never more than one exit line, nothing is printed after it,
\* and once the tracer has collected the termination of the tracee and has
\* decoded a loop iteration's status since, the exit line is out.
C2_ExitReportOnTermination ==
    /\ Len(ExitLines) <= 1
    /\ \A i \in DOMAIN out : IsExitLine(out[i]) => i = Len(out)
    /\ (tstate = "reaped" /\ Resumes >= 1 /\ pc \notin {"wait", "decode"})
         => Len(ExitLines) = 1

\* C3: after a failed attach to a process identifier nobody has, the tracer
\* is not in the trace loop, has printed no exit line, and if it has
\* finished its exit code is not 0.
C3_FailedAttachIsSurfaced ==
    (AttachForm(cmd) /\ AttachFailed /\ proc_pid # tracee_pid)
    => /\ pc \notin {"loop", "wait", "decode", "getregs", "print"}
       /\ ExitLines = <<>>
       /\ (pc = "done" => exit_code # 0)

\* C4: the tracer never ends its run on a snapshot of a syscall-exit stop
\* whose identifier the table does not name.
C4_UnknownIdKeepsSession ==
    ~( /\ pc = "done"
       /\ stop_kind = "exit"
       /\ regs.orig_rax \notin DOMAIN syscall_table )

\* C5 as stated: when execve failed in the forked copy and the tracer has
\* finished, the tracer's exit code is 1.
C5_TracerExitsOneOnExecFailure ==
    (ExecFailed /\ pc = "done") => exit_code = 1

\* C5 amended: when execve failed in the forked copy, it is that copy which
\* ends with exit code 1; the tracer, once finished, has printed the single
\* line "child exited with status: 1" and its own exit code is 0.
C5_ChildExitsOneTracerZero ==
    ExecFailed =>
        /\ (child_pc = "exited" => wstatus = ExitedStatus(1))
        /\ (pc = "done" => exit_code = 0 /\ out = <<ExitLine(1)>>)

C5_Witness ==
    ExecFailed /\ child_pc = "exited" /\ pc = "done"

\* C6: whenever the tracer is back at the top of the loop with the tracee
\* in a stop it has seen, it has printed one line per system call that
\* reached its exit stop, in order, each with the identifier and arguments
\* of that call's entry and the result of its exit.
C6_LinesCarryEntryArgsAndResult ==
    (pc = "loop" /\ tstate = "stopped" /\ Resumes >= 1)
    => /\ Len(SyscallLines) = Len(Completed)
       /\ \A i \in DOMAIN SyscallLines :
            /\ i <= Len(Completed)
            /\ Completed[i].sc.id \in DOMAIN syscall_table
            /\ SyscallLines[i] = LineOf(Completed[i])

\* C7: when the tracer decodes a stop, the flag is true exactly if the stop
\* is a syscall-exit stop, and it is false at the first stop of the loop.
C7_FlagMatchesBoundary ==
    (pc = "decode" /\ tstate = "stopped" /\ ~pending)
    => /\ is_sys_exit <=> (stop_kind = "exit")
       /\ (Resumes = 1 => ~is_sys_exit)

\* C8: after a failed fork the tracer has finished with exit code 1, fork is
\* the only kernel request it made, and it printed nothing on standard output.
C8_ForkFailureIsFatal ==
    ForkFailed =>
        /\ pc = "done"
        /\ exit_code = 1
        /\ Len(reqs) = 1
        /\ out = <<>>
        /\ tstate = "absent"

C8_Witness ==
    ForkFailed /\ pc = "done" /\ errout = <<"failed to fork a new subprocess">>

\* C9: with an empty command line the tracer makes no kernel request and,
\* once finished, has exit code 1.
C9_NoArgumentsIsUsageError ==
    (cmd = <<>>)
    => /\ reqs = <<>>
       /\ pc \in {"start", "done"}
       /\ (pc = "done" => exit_code = 1)

\* C10: every attach, wait, resume and register-read request made so far
\* names the current tracee_pid, every syscall line printed so far carries
\* it, and there is no other process the kernel could have traced.
C10_OneTraceeFixedPid ==
    /\ \A i \in DOMAIN reqs :
         reqs[i].op \in {"attach", "wait", "resume", "getregs"}
           => reqs[i].pid = tracee_pid /\ AsI64(tracee_pid) = tracee_pid
    /\ \A i \in DOMAIN SyscallLines : SyscallLines[i].pid = Dec(tracee_pid)
    /\ (traced \/ forked) => proc_pid = tracee_pid

C10_Witness ==
    /\ ReqsOf("wait") # {} /\ ReqsOf("resume") # {} /\ ReqsOf("getregs") # {}
    /\ Len(SyscallLines) >= 2
    /\ \A i \in ReqsOf("getregs") : reqs[i].ok

----------------------------------------------------------------------------
(* Properties of the trace loop's requests *)

LastReq == reqs[Len(reqs)]
\* a wait status that reports a stop: low byte 0x7f
IsStopStatus(st) == st % 256 = 127

\* C11: when the tracer is about to read the registers, its last request was
\* a wait that succeeded and the status that wait wrote reports a stop.
C11_SnapshotOnlyAfterFreshStop ==
    pc = "getregs"
    => /\ LastReq.op = "wait"
       /\ LastReq.ok
       /\ IsStopStatus(status)

\* C12: once a wait of the loop has failed because the tracee is gone, the
\* loop ends: no resume request follows a failed wait of the loop.
C12_LoopEndsOnceTraceeGone ==
    \A i \in ReqsOf("wait") : \A j \in ReqsOf("resume") :
        (~reqs[i].ok /\ (\E k \in ReqsOf("resume") : k < i)) => j < i

\* C13: the status the loop decodes was written by the wait of the same
\* iteration: that wait succeeded.
C13_DecodedStatusIsFresh ==
    pc = "decode" => (LastReq.op = "wait" /\ LastReq.ok)

\* C14: the forked copy only ever asks to be traced and then to have its
\* image replaced, in that order; when the replacement failed and the copy
\* has ended, it ended with exit code 1; every wait, resume and register
\* read of the run is the parent's.
C14_ChildNeverTraces ==
    /\ \A i \in DOMAIN child_reqs : child_reqs[i].op \in {"traceme", "execve"}
    /\ \A i \in DOMAIN child_reqs : child_reqs[i].op = "execve" =>
          /\ i = 2
          /\ child_reqs[1].op = "traceme"
    /\ (ExecFailed /\ child_pc = "exited") => wstatus = ExitedStatus(1)
    /\ child_pc \in {"none", "traceme", "argv", "execve", "exec_failed", "exited", "image"}
    /\ \A i \in DOMAIN reqs : reqs[i].op \in {"fork", "attach", "wait", "resume", "getregs"}

C14_Witness ==
    /\ ExecFailed
    /\ child_pc = "exited"
    /\ Len(child_reqs) = 2
    /\ ReqsOf("wait") # {}
    /\ ReqsOf("resume") # {}

IsTraceReq(r) == r.op \in {"wait", "resume", "getregs"}
\* the wait, resume and register-read requests of the tracer, in order
TraceReqs == SelectSeq(reqs, IsTraceReq)

\* C15: the first of the tracer's wait, resume and register-read requests
\* is a wait and the second a resume; a resume follows a wait or a register
\* read, a wait follows a resume, a register read follows a wait; and once
\* the exit line is printed the tracer is finished, the exit line is the
\* last line and the wait it decoded is the last request.
C15_ProtocolOrder ==
    LET T == TraceReqs IN
    /\ Len(T) >= 1 => T[1].op = "wait"
    /\ Len(T) >= 2 => T[2].op = "resume"
    /\ \A i \in 2..Len(T) :
         /\ T[i].op = "resume"  => T[i-1].op \in {"wait", "getregs"}
         /\ T[i].op = "wait"    => T[i-1].op = "resume"
         /\ T[i].op = "getregs" => T[i-1].op = "wait"
    /\ ExitLines # <<>> =>
         /\ pc = "done"
         /\ IsExitLine(out[Len(out)])
         /\ T[Len(T)].op = "wait"

C15_Witness ==
    /\ pc = "done"
    /\ ExitLines # <<>>
    /\ ReqsOf("getregs") # {}
    /\ Len(TraceReqs) >= 8

\* C16: whenever the tracer is at the top of the loop, having been through
\* n iterations that did not end it, it has printed n \div 2 syscall lines
\* and the flag is true exactly if n is odd.
C16_LineEverySecondStop ==
    pc = "loop" =>
        /\ Len(SyscallLines) = Resumes \div 2
        /\ is_sys_exit <=> (Resumes % 2 = 1)

C16_Witness ==
    pc = "loop" /\ Resumes = 5 /\ Len(SyscallLines) = 2 /\ tstate = "stopped"

\* the exit code the tracee ended with, when it ended by itself
TraceeExitCode ==
    IF child_pc = "exited" THEN (IF ExecFailed THEN 1 ELSE 101) ELSE cur.rdi

\* C17: the loop goes on only with a status whose low 7 bits are not zero;
\* when the tracer has finished normally, the status has its low 7 bits
\* zero, the last line is the exit line with (status >> 8) & 0xff in
\* decimal, a value in 0..255, the wait that was decoded is the last request
\* (no register read), and if the tracee ended by itself the number printed
\* is its exit code.
C17_ExitLineReportsExitCode ==
    /\ (pc \in {"loop", "getregs", "print"} /\ Resumes >= 1) => ~LowBitsZero(status)
    /\ (pc = "done" /\ exit_code = 0) =>
         /\ LowBitsZero(status)
         /\ out # <<>>
         /\ out[Len(out)] = ExitLine(ExitStatusOf(status))
         /\ ExitStatusOf(status) \in 0..255
         /\ LastReq.op = "wait"
         /\ (tstate = "reaped" /\ LowBitsZero(wstatus))
              => out[Len(out)].res = Dec(TraceeExitCode)

C17_Witness ==
    /\ pc = "done"
    /\ exit_code = 0
    /\ tstate = "reaped"
    /\ cur = ExitSyscall(3)
    /\ out[Len(out)].res = <<"3">>

\* C18: when the last request is a register read that failed, the snapshot
\* is all zero and the tracer has neither ended nor reported an error; once
\* it is back at the top of the loop it has printed the line of system call
\* 0 ("read") with arguments 0 and result 0 and the flag is false.
C18_FailedReadPrintsZeroLine ==
    (reqs # <<>> /\ LastReq.op = "getregs" /\ ~LastReq.ok) =>
        /\ pc \in {"print", "loop"}
        /\ regs = ZeroRegs
        /\ exit_code = NoExit
        /\ \A i \in DOMAIN errout : errout[i] # "panic"
        /\ pc = "loop" =>
             /\ out # <<>>
             /\ out[Len(out)] = SyscallLine(tracee_pid, "read", 0, 0, 0, 0)
             /\ ~is_sys_exit

\* the tracee was killed in a syscall-exit stop the tracer had seen, and the
\* register read that followed failed
C18_Witness ==
    /\ pc = "loop"
    /\ LastReq.op = "getregs"
    /\ ~LastReq.ok
    /\ nsignals = 0
    /\ tphase = "user"
    /\ Len(Completed) = 2
    /\ Len(SyscallLines) = 2

\* ptrace requests that write the tracee: POKETEXT, POKEDATA, POKEUSER,
\* SETREGS, SETFPREGS
MutatingRequests == {4, 5, 6, 13, 15}

\* C19: the tracer's ptrace requests are attach (16), resume to the next
\* syscall stop (24) with data 0, and read registers (12); the forked copy's
\* only ptrace request is mark-self-traceable (0); none writes the tracee.
C19_TracerNeverWritesTracee ==
    /\ \A i \in DOMAIN reqs :
         /\ reqs[i].request \in {NoRequest, 12, 16, 24}
         /\ reqs[i].request \notin MutatingRequests
         /\ reqs[i].request = 24 => reqs[i].data = 0
         /\ reqs[i].request = NoRequest => reqs[i].op \in {"fork", "wait"}
    /\ \A i \in DOMAIN child_reqs :
         /\ child_reqs[i].request \in {NoRequest, 0}
         /\ child_reqs[i].request = NoRequest => child_reqs[i].op = "execve"

C19_Witness ==
    /\ pc = "done"
    /\ child_reqs # <<>>
    /\ ReqsOf("resume") # {}
    /\ \E i \in ReqsOf("getregs") : reqs[i].ok

====
